---- MODULE Spec2Model ----
(***************************************************************************)
(* Scalar arithmetic core of bitcoin-k256 (crypto/scalar.rs,               *)
(* crypto/arithmetic.rs, crypto/utils.rs, utils.rs).                       *)
(*                                                                         *)
(* The library is a set of pure functions over immutable values, so the   *)
(* state machine is a client that calls one public operation per step:    *)
(* `op` names the operation last called, `arg` holds its arguments, `ret` *)
(* its return value and `path` the branches the call took through the     *)
(* repository's code.                                                      *)
(*                                                                         *)
(* Scaling.  A scalar array is SIZE elements of ByteBits bits each        *)
(* (32 elements of 8 bits in the source).  The curve order n is the       *)
(* largest prime below 2^(ByteBits*SIZE); like the secp256k1 order it is  *)
(* prime and lies in the upper half of the array's range, which are the   *)
(* two facts about n that the code relies on.  Everything else is         *)
(* computed the way the source computes it, on arrays of elements.        *)
(*                                                                         *)
(* External crates.  k256::NonZeroScalar is an integer in 1..n-1 with     *)
(* arithmetic modulo n; k256::PublicKey is a non-identity element of the  *)
(* prime-order group generated by G, written as its discrete logarithm    *)
(* k (the point k*G), k in 1..n-1, with 0 standing for the identity.      *)
(***************************************************************************)
EXTENDS Integers, Sequences, FiniteSets, TLC

VARIABLES op, arg, ret, path, cells, threads, runs

\* the client's variables
client == <<op, arg, ret, path>>

\* the lazily initialised constants, the threads reading them and the
\* number of times each initialiser has run
lazy == <<cells, threads, runs>>

vars == <<op, arg, ret, path, cells, threads, runs>>

(***************************************************************************)
(* Bounds                                                                  *)
(***************************************************************************)
\* Parity::from_i32 is called with the values -ParityBound .. ParityBound
ParityBound == 3

\* threads that read the lazily initialised constants
NumThreads == 2

\* bits per array element (8 for u8)
ByteBits == 2

\* elements per scalar array (32 in [u8; 32])
SIZE == 2

(***************************************************************************)
(* Integers and byte arrays                                                *)
(***************************************************************************)
RECURSIVE Pow2(_)
Pow2(k) == IF k = 0 THEN 1 ELSE 2 * Pow2(k - 1)

\* number of values of one array element (256 for u8)
Base == Pow2(ByteBits)

Byte == 0 .. (Base - 1)

\* value of the all-ones array
MaxValue == Pow2(ByteBits * SIZE) - 1

IsPrime(p) == p > 1 /\ \A d \in 2 .. (p - 1) : p % d # 0

\* the curve order n
CurveOrder ==
    CHOOSE p \in 2 .. (MaxValue - 1) :
        IsPrime(p) /\ \A q \in (p + 1) .. (MaxValue - 1) : ~IsPrime(q)

\* big-endian value of a slice of elements
RECURSIVE BeValue(_)
BeValue(bytes) ==
    IF Len(bytes) = 0 THEN 0
    ELSE BeValue(SubSeq(bytes, 1, Len(bytes) - 1)) * Base + bytes[Len(bytes)]

\* big-endian encoding of v on len elements
RECURSIVE BeBytes(_, _)
BeBytes(v, len) ==
    IF len = 0 THEN <<>>
    ELSE Append(BeBytes(v \div Base, len - 1), v % Base)

\* all arrays [u8; SIZE]
ByteArray == [1 .. SIZE -> Byte]

\* slices &[u8] of the lengths around SIZE
Slices == UNION {[1 .. l -> Byte] : l \in (SIZE - 1) .. (SIZE + 1)}

MAX_U256 == [i \in 1 .. SIZE |-> Base - 1]

ZERO_BYTES == [i \in 1 .. SIZE |-> 0]

CURVE_ORDER_BYTES == BeBytes(CurveOrder, SIZE)

CURVE_ORDER_MINUS_ONE_BYTES == BeBytes(CurveOrder - 1, SIZE)

\* x ^ y on elements of k bits
RECURSIVE XorBits(_, _, _)
XorBits(x, y, k) ==
    IF k = 0 THEN 0
    ELSE ((x + y) % 2) + 2 * XorBits(x \div 2, y \div 2, k - 1)

\* xor_arrays adding the elements, wrapping, instead of XORing them
xor_arrays_wrapping_add(arr1, arr2) ==
    [i \in 1 .. Len(arr1) |-> (arr1[i] + arr2[i]) % Base]

xor_arrays(arr1, arr2) ==
    [i \in 1 .. Len(arr1) |-> XorBits(arr1[i], arr2[i], ByteBits)]

(***************************************************************************)
(* Constant-time primitives (crypto/utils.rs and the subtle crate)         *)
(***************************************************************************)
Min(x, y) == IF x < y THEN x ELSE y

\* the loop of ct_slice_lex_cmp from position i on: the two accumulated flags
RECURSIVE LexLoop(_, _, _, _, _)
LexLoop(lhs, rhs, i, whole_slice_is_eq, whole_slice_is_gt) ==
    IF i > Min(Len(lhs), Len(rhs))
    THEN [eq |-> whole_slice_is_eq, gt |-> whole_slice_is_gt]
    ELSE LexLoop(lhs, rhs, i + 1,
                 whole_slice_is_eq /\ (lhs[i] = rhs[i]),
                 whole_slice_is_gt \/ (whole_slice_is_eq /\ (lhs[i] > rhs[i])))

\* ct_slice_lex_cmp without the two length flags, as for equal lengths only
ct_slice_lex_cmp_no_len(lhs, rhs) ==
    LET flags == LexLoop(lhs, rhs, 1, TRUE, FALSE)
    IN  IF flags.gt THEN "Greater" ELSE IF flags.eq THEN "Equal" ELSE "Less"

ct_slice_lex_cmp(lhs, rhs) ==
    LET flags == LexLoop(lhs, rhs, 1, TRUE, FALSE)
        lhs_is_longer == Len(lhs) > Len(rhs)
        rhs_is_longer == Len(rhs) > Len(lhs)
        order0 == "Less"
        order1 == IF flags.eq THEN "Equal" ELSE order0
        order2 == IF flags.eq /\ lhs_is_longer THEN "Greater" ELSE order1
        order3 == IF flags.eq /\ rhs_is_longer THEN "Less" ELSE order2
    IN  IF flags.gt THEN "Greater" ELSE order3

\* the copy of ct_slice_lex_cmp in utils.rs
utils_ct_slice_lex_cmp(lhs, rhs) ==
    LET flags == LexLoop(lhs, rhs, 1, TRUE, FALSE)
        lhs_is_longer == Len(lhs) > Len(rhs)
        rhs_is_longer == Len(rhs) > Len(lhs)
        order0 == "Less"
        order1 == IF flags.eq THEN "Equal" ELSE order0
        order2 == IF flags.eq /\ lhs_is_longer THEN "Greater" ELSE order1
        order3 == IF flags.eq /\ rhs_is_longer THEN "Less" ELSE order2
    IN  IF flags.gt THEN "Greater" ELSE order3

\* the slices handed to ct_slice_lex_cmp, of every length up to SIZE
CmpSlices == UNION {[1 .. l -> Byte] : l \in 0 .. SIZE}

\* std::cmp::Ordering as i8
OrderingValue(o) == CASE o = "Less" -> 0 - 1 [] o = "Equal" -> 0 [] o = "Greater" -> 1

\* subtle: ConstantTimeGreater for Ordering
Ordering_ct_gt(o1, o2) == OrderingValue(o1) > OrderingValue(o2)

\* subtle: ConstantTimeEq for [T], false at once when the lengths differ
Slice_ct_eq(lhs, rhs) ==
    IF Len(lhs) # Len(rhs) THEN FALSE
    ELSE \A i \in 1 .. Len(lhs) : lhs[i] = rhs[i]

\* subtle: conditional_select(a, b, choice) on plain data
conditional_select(a, b, choice) == IF choice THEN b ELSE a

(***************************************************************************)
(* Return values                                                           *)
(***************************************************************************)
Ok(v) == [tag |-> "Ok", value |-> v]

Err(e) == [tag |-> "Err", error |-> e]

\* the value of a call that cannot fail
Ret(v) == [tag |-> "Ret", value |-> v]

\* a call that panicked
Panic == [tag |-> "Panic"]

Zero == [tag |-> "Zero"]

Valid(s) == [tag |-> "Valid", scalar |-> s]

\* the values of type Scalar: the inner k256::NonZeroScalar
Scalar == 1 .. (CurveOrder - 1)

MaybeScalar == {Zero} \cup {Valid(s) : s \in Scalar}

(***************************************************************************)
(* k256 scalars                                                            *)
(***************************************************************************)
\* k256::NonZeroScalar::try_from(&[u8]): exactly SIZE bytes, 0 < value < n
NonZeroScalar_try_from(bytes) ==
    IF Len(bytes) # SIZE THEN Err("Error")
    ELSE LET v == BeValue(bytes)
         IN  IF v = 0 \/ v >= CurveOrder THEN Err("Error") ELSE Ok(v)

\* k256::NonZeroScalar::new(k256::Scalar) as an Option turned into MaybeScalar
NonZeroScalar_new(v) == IF v = 0 THEN Zero ELSE Valid(v)

(***************************************************************************)
(* Scalar (crypto/scalar.rs)                                               *)
(***************************************************************************)
\* Scalar::serialize writing the least significant element first
Scalar_serialize_le(s) == [i \in 1 .. SIZE |-> BeBytes(s, SIZE)[SIZE + 1 - i]]

Scalar_serialize(s) == BeBytes(s, SIZE)

\* Scalar::from_slice parsing the first SIZE elements of a longer slice
Scalar_from_slice_prefix(bytes) ==
    LET inner == NonZeroScalar_try_from(
                     IF Len(bytes) > SIZE THEN SubSeq(bytes, 1, SIZE) ELSE bytes)
    IN  IF inner.tag = "Err" THEN Err("InvalidScalarBytes") ELSE Ok(inner.value)

Scalar_from_slice(bytes) ==
    LET inner == NonZeroScalar_try_from(bytes)
    IN  IF inner.tag = "Err" THEN Err("InvalidScalarBytes") ELSE Ok(inner.value)

MaybeScalar_serialize(m) ==
    IF m.tag = "Valid" THEN Scalar_serialize(m.scalar) ELSE ZERO_BYTES

\* MaybeScalar::from_slice testing "every element is zero" instead of
\* comparing with the array of SIZE zeros
MaybeScalar_from_slice_all_zero(bytes) ==
    LET parsed == Scalar_from_slice(bytes)
    IN  IF parsed.tag = "Ok" THEN Ok(Valid(parsed.value))
        ELSE IF \A i \in 1 .. Len(bytes) : bytes[i] = 0 THEN Ok(Zero)
        ELSE Err(parsed.error)

MaybeScalar_from_slice(bytes) ==
    LET parsed == Scalar_from_slice(bytes)
    IN  IF parsed.tag = "Ok" THEN Ok(Valid(parsed.value))
        ELSE IF Slice_ct_eq(bytes, ZERO_BYTES) THEN Ok(Zero)
        ELSE Err(parsed.error)

\* Result::unwrap in the initialisers of the lazily built constants; a panic
\* there leaves no scalar, written 0, which is not a value of Scalar
Unwrap(res) == IF res.tag = "Ok" THEN res.value ELSE 0

SCALAR_ONE == Unwrap(Scalar_from_slice(BeBytes(1, SIZE)))

SCALAR_TWO == Unwrap(Scalar_from_slice(BeBytes(2, SIZE)))

SCALAR_MAX == Unwrap(Scalar_from_slice(CURVE_ORDER_MINUS_ONE_BYTES))

SCALAR_HALF_ORDER == Unwrap(Scalar_from_slice(BeBytes(CurveOrder \div 2, SIZE)))

\* MaybeScalar::unwrap
MaybeScalar_unwrap(self) == IF self.tag = "Valid" THEN Ret(self.scalar) ELSE Panic

\* Scalar::ct_gt answering "greater than or equal"
Scalar_ct_gt_or_equal(self, other) ==
    ct_slice_lex_cmp(Scalar_serialize(self), Scalar_serialize(other)) # "Less"

Scalar_ct_gt(self, other) ==
    ct_slice_lex_cmp(Scalar_serialize(self), Scalar_serialize(other)) = "Greater"

greater_than_curve_order_minus_one(self) == Scalar_ct_gt(self, SCALAR_MAX)

\* MaybeScalar::is_zero
MaybeScalar_is_zero(self) == self = Zero

\* From<MaybeScalar> for Option<Scalar>
Option_from_MaybeScalar(maybe_scalar) ==
    IF maybe_scalar.tag = "Valid" THEN [tag |-> "Some", value |-> maybe_scalar.scalar]
    ELSE [tag |-> "None"]

\* MaybeScalar::into_option
MaybeScalar_into_option(self) == Option_from_MaybeScalar(self)

\* TryFrom<MaybeScalar> for Scalar putting Scalar::one() in the place of Zero
Scalar_try_from_MaybeScalar_or_one(maybe_scalar) ==
    IF maybe_scalar.tag = "Valid" THEN Ok(maybe_scalar.scalar) ELSE Ok(SCALAR_ONE)

\* TryFrom<MaybeScalar> for Scalar
Scalar_try_from_MaybeScalar(maybe_scalar) ==
    IF maybe_scalar.tag = "Valid" THEN Ok(maybe_scalar.scalar)
    ELSE Err("ZeroScalarError")

\* MaybeScalar::not_zero
MaybeScalar_not_zero(self) == Scalar_try_from_MaybeScalar(self)

\* Default for MaybeScalar
MaybeScalar_default == Zero

(***************************************************************************)
(* The byte literals of crypto/scalar.rs at their full width: 32 elements *)
(* of 8 bits, big-endian, compared and computed with element by element.  *)
(***************************************************************************)
\* the 32-element array whose last element is v, the others being 0
Secp256k1_small(v) == [i \in 1 .. 32 |-> IF i = 32 THEN v ELSE 0]

\* the array of SCALAR_ONE
Secp256k1_SCALAR_ONE_BYTES == Secp256k1_small(1)

\* the array of SCALAR_TWO
Secp256k1_SCALAR_TWO_BYTES == Secp256k1_small(2)

\* the array of SCALAR_HALF_ORDER
Secp256k1_SCALAR_HALF_ORDER_BYTES ==
    <<127, 255, 255, 255, 255, 255, 255, 255, 255, 255, 255, 255, 255, 255, 255, 255,
      93, 87, 110, 115, 87, 164, 80, 29, 223, 233, 47, 70, 104, 27, 32, 160>>

\* the constant CURVE_ORDER_BYTES
Secp256k1_CURVE_ORDER_BYTES ==
    <<255, 255, 255, 255, 255, 255, 255, 255, 255, 255, 255, 255, 255, 255, 255, 254,
      186, 174, 220, 230, 175, 72, 160, 59, 191, 210, 94, 140, 208, 54, 65, 65>>

\* CURVE_ORDER_MINUS_ONE_BYTES as a copy of CURVE_ORDER_BYTES
Secp256k1_CURVE_ORDER_MINUS_ONE_BYTES_copy == Secp256k1_CURVE_ORDER_BYTES

\* the constant CURVE_ORDER_MINUS_ONE_BYTES
Secp256k1_CURVE_ORDER_MINUS_ONE_BYTES ==
    <<255, 255, 255, 255, 255, 255, 255, 255, 255, 255, 255, 255, 255, 255, 255, 254,
      186, 174, 220, 230, 175, 72, 160, 59, 191, 210, 94, 140, 208, 54, 65, 64>>

\* bytes + 1 on a big-endian array of 8-bit elements, wrapping
RECURSIVE BytesPlusOne(_)
BytesPlusOne(bytes) ==
    IF Len(bytes) = 0 THEN <<>>
    ELSE LET last == bytes[Len(bytes)]
             front == SubSeq(bytes, 1, Len(bytes) - 1)
         IN  IF last + 1 < Pow2(8) THEN Append(front, last + 1)
             ELSE Append(BytesPlusOne(front), 0)

\* bytes >> 1 on a big-endian array of 8-bit elements
BytesShiftRight(bytes) ==
    [i \in 1 .. Len(bytes) |->
        (bytes[i] \div 2) + (IF i > 1 THEN (bytes[i - 1] % 2) * Pow2(7) ELSE 0)]

\* k256::NonZeroScalar::try_from on the 32-element array of a constant's
\* initialiser: 0 < value < n, compared element by element
Secp256k1_in_range(bytes) ==
    /\ Len(bytes) = 32
    /\ \E i \in 1 .. 32 : bytes[i] # 0
    /\ LexLoop(bytes, Secp256k1_CURVE_ORDER_BYTES, 1, TRUE, FALSE)
           = [eq |-> FALSE, gt |-> FALSE]

(***************************************************************************)
(* Operators (crypto/arithmetic.rs)                                        *)
(***************************************************************************)
\* Scalar + Scalar multiplying the inner scalars
Scalar_add_as_mul(self, other) == NonZeroScalar_new((self * other) % CurveOrder)

\* Scalar + Scalar
Scalar_add(self, other) == NonZeroScalar_new((self + other) % CurveOrder)

\* Scalar * Scalar adding the inner scalars
Scalar_mul_as_add(self, other) == (self + other) % CurveOrder

\* Scalar * Scalar
Scalar_mul(self, other) == (self * other) % CurveOrder

\* -Scalar taking the complement, the way MAX_U256 - z is taken
Scalar_neg_complement(self) == MaxValue - self

\* -Scalar
Scalar_neg(self) == (CurveOrder - self) % CurveOrder

\* -MaybeScalar
MaybeScalar_neg(self) ==
    IF self.tag = "Valid" THEN Valid(Scalar_neg(self.scalar)) ELSE Zero

\* add_any giving the identity as soon as one operand is absent, the way
\* multiply_any does
add_any_zip(a, b) ==
    IF a.tag = "Zero" \/ b.tag = "Zero" THEN Zero
    ELSE Scalar_add(a.scalar, b.scalar)

\* add_any on scalars; an operand of type Scalar is passed as Valid(s),
\* which is what Optional::option makes of it
add_any(a, b) ==
    IF a.tag = "Zero"
    THEN (IF b.tag = "Zero" THEN Zero ELSE Valid(b.scalar))
    ELSE (IF b.tag = "Zero" THEN Valid(a.scalar)
          ELSE Scalar_add(a.scalar, b.scalar))

\* multiply_any handing back the present operand when the other is absent,
\* the way add_any does
multiply_any_like_add(a, b) ==
    IF a.tag = "Zero"
    THEN (IF b.tag = "Zero" THEN Zero ELSE Valid(b.scalar))
    ELSE (IF b.tag = "Zero" THEN Valid(a.scalar)
          ELSE Valid(Scalar_mul(a.scalar, b.scalar)))

\* multiply_any on scalars
multiply_any(a, b) ==
    IF a.tag = "Zero" \/ b.tag = "Zero" THEN Zero
    ELSE Valid(Scalar_mul(a.scalar, b.scalar))

\* Scalar::invert: the inverse of self modulo n
Scalar_invert(self) == CHOOSE x \in Scalar : (self * x) % CurveOrder = 1

\* Scalar / Scalar multiplying by the divisor itself
Scalar_div_no_invert(self, rhs) == Scalar_mul(self, rhs)

\* Scalar / Scalar
Scalar_div(self, rhs) == Scalar_mul(self, Scalar_invert(rhs))

\* divide_any on scalars
divide_any(a, b) ==
    IF a.tag = "Zero" THEN Zero ELSE Valid(Scalar_div(a.scalar, b))

\* subtract_any forgetting to negate the right-hand side
subtract_any_no_neg(a, b) == add_any(a, b)

subtract_any(a, b) == add_any(a, MaybeScalar_neg(b))

\* MaybeScalar::conditional_select with the two operands exchanged
MaybeScalar_conditional_select_swapped(a, b, choice) ==
    LET a_inner == IF a.tag = "Valid" THEN a.scalar ELSE 0
        b_inner == IF b.tag = "Valid" THEN b.scalar ELSE 0
        inner_scalar == conditional_select(b_inner, a_inner, choice)
    IN  NonZeroScalar_new(inner_scalar)

\* ConditionallySelectable for MaybeScalar
MaybeScalar_conditional_select(a, b, choice) ==
    LET a_inner == IF a.tag = "Valid" THEN a.scalar ELSE 0
        b_inner == IF b.tag = "Valid" THEN b.scalar ELSE 0
        inner_scalar == conditional_select(a_inner, b_inner, choice)
    IN  NonZeroScalar_new(inner_scalar)

(***************************************************************************)
(* Modular reduction (crypto/scalar.rs)                                    *)
(***************************************************************************)
\* reduce_from_internal: the array of r = MAX_U256 - modulus
reduce_from_internal_modulus_neg_bytes(modulus) == xor_arrays(modulus, MAX_U256)

\* the array of q with the two operands of the selection exchanged
reduce_from_internal_q_bytes_swapped(z_bytes, modulus) ==
    LET z_bytes_neg == xor_arrays(z_bytes, MAX_U256)
        z_needs_reduction == Ordering_ct_gt(ct_slice_lex_cmp(z_bytes, modulus), "Less")
    IN  conditional_select(z_bytes_neg, z_bytes, z_needs_reduction)

\* reduce_from_internal: the array of q, z or MAX_U256 - z
reduce_from_internal_q_bytes(z_bytes, modulus) ==
    LET z_bytes_neg == xor_arrays(z_bytes, MAX_U256)
        z_needs_reduction == Ordering_ct_gt(ct_slice_lex_cmp(z_bytes, modulus), "Less")
    IN  conditional_select(z_bytes, z_bytes_neg, z_needs_reduction)

\* reduce_from_internal comparing with "greater than" instead of "not less":
\* an input equal to the modulus is not reduced
reduce_from_internal_strict(z_bytes, modulus) ==
    LET modulus_neg_bytes == xor_arrays(modulus, MAX_U256)
        z_bytes_neg == xor_arrays(z_bytes, MAX_U256)
        z_needs_reduction == Ordering_ct_gt(ct_slice_lex_cmp(z_bytes, modulus), "Equal")
        q_bytes == conditional_select(z_bytes, z_bytes_neg, z_needs_reduction)
        q == MaybeScalar_from_slice(q_bytes)
        r == MaybeScalar_from_slice(modulus_neg_bytes)
    IN  IF q.tag = "Err" \/ r.tag = "Err" THEN Panic
        ELSE MaybeScalar_conditional_select(
                 q.value, subtract_any(r.value, q.value), z_needs_reduction)

reduce_from_internal(z_bytes, modulus) ==
    LET modulus_neg_bytes == reduce_from_internal_modulus_neg_bytes(modulus)
        z_needs_reduction == Ordering_ct_gt(ct_slice_lex_cmp(z_bytes, modulus), "Less")
        q_bytes == reduce_from_internal_q_bytes(z_bytes, modulus)
        q == MaybeScalar_from_slice(q_bytes)
        r == MaybeScalar_from_slice(modulus_neg_bytes)
    IN  IF q.tag = "Err" \/ r.tag = "Err" THEN Panic
        ELSE MaybeScalar_conditional_select(
                 q.value, subtract_any(r.value, q.value), z_needs_reduction)

\* `<=` on arrays [u8; SIZE]: the lexicographic order of the elements
array_le(a, b) ==
    \/ a = b
    \/ \E i \in 1 .. Len(a) : a[i] < b[i] /\ \A j \in 1 .. (i - 1) : a[j] = b[j]

\* the moduli that pass the two debug_assert!s of reduce_from_internal
AdmissibleModuli ==
    {modulus \in ByteArray :
        /\ array_le(modulus, CURVE_ORDER_BYTES)
        /\ array_le(xor_arrays(modulus, MAX_U256), CURVE_ORDER_BYTES)}

\* reduce_from reducing modulo n instead of n - 1
reduce_from_modulo_order(z_bytes) ==
    LET reduced == reduce_from_internal(z_bytes, CURVE_ORDER_BYTES)
    IN  IF reduced.tag = "Panic" THEN Panic
        ELSE LET sum == add_any(reduced, Valid(SCALAR_ONE))
             IN  IF sum.tag = "Zero" THEN Panic ELSE Ok(sum.scalar)

reduce_from(z_bytes) ==
    LET reduced == reduce_from_internal(z_bytes, CURVE_ORDER_MINUS_ONE_BYTES)
    IN  IF reduced.tag = "Panic" THEN Panic
        ELSE LET sum == add_any(reduced, Valid(SCALAR_ONE))
             IN  IF sum.tag = "Zero" THEN Panic ELSE Ok(sum.scalar)

(***************************************************************************)
(* Branches taken.  Each *_path operator lists, in execution order, the   *)
(* arms of the match / if / ? / Option and Result combinators that the    *)
(* function of the same name runs through; the constant-time primitives   *)
(* (xor_arrays, ct_slice_lex_cmp, the subtle selections, k256 arithmetic) *)
(* run the same steps for every value and contribute nothing.             *)
(***************************************************************************)
Scalar_from_slice_path(bytes) ==
    IF NonZeroScalar_try_from(bytes).tag = "Err"
    THEN <<"Scalar::from_slice: ? returns Err">>
    ELSE <<"Scalar::from_slice: Ok">>

MaybeScalar_from_slice_path(bytes) ==
    Scalar_from_slice_path(bytes) \o
    (IF Scalar_from_slice(bytes).tag = "Ok" THEN <<"MaybeScalar::from_slice: map">>
     ELSE IF Slice_ct_eq(bytes, ZERO_BYTES)
          THEN <<"MaybeScalar::from_slice: or_else, Ok(Zero)">>
          ELSE <<"MaybeScalar::from_slice: or_else, Err">>)

Scalar_add_path(self, other) ==
    IF Scalar_add(self, other).tag = "Zero"
    THEN <<"Scalar + Scalar: unwrap_or(Zero)">>
    ELSE <<"Scalar + Scalar: map">>

MaybeScalar_neg_path(self) ==
    IF self.tag = "Valid" THEN <<"-MaybeScalar: map">>
    ELSE <<"-MaybeScalar: unwrap_or(Zero)">>

add_any_path(a, b) ==
    IF a.tag = "Zero"
    THEN (IF b.tag = "Zero" THEN <<"add_any: None, None">>
          ELSE <<"add_any: None, Some">>)
    ELSE (IF b.tag = "Zero" THEN <<"add_any: Some, None">>
          ELSE <<"add_any: Some, Some">> \o Scalar_add_path(a.scalar, b.scalar))

subtract_any_path(a, b) == MaybeScalar_neg_path(b) \o add_any_path(a, MaybeScalar_neg(b))

MaybeScalar_conditional_select_path(a, b, choice) ==
    <<IF a.tag = "Valid" THEN "select a: map" ELSE "select a: unwrap_or(ZERO)",
      IF b.tag = "Valid" THEN "select b: map" ELSE "select b: unwrap_or(ZERO)",
      IF MaybeScalar_conditional_select(a, b, choice).tag = "Valid"
      THEN "select: map" ELSE "select: unwrap_or(Zero)">>

\* reduce_from_internal choosing between q and r - q with an if on
\* z_needs_reduction instead of the conditional selection
reduce_from_internal_path_branching(z_bytes, modulus) ==
    LET modulus_neg_bytes == xor_arrays(modulus, MAX_U256)
        z_bytes_neg == xor_arrays(z_bytes, MAX_U256)
        z_needs_reduction == Ordering_ct_gt(ct_slice_lex_cmp(z_bytes, modulus), "Less")
        q_bytes == conditional_select(z_bytes, z_bytes_neg, z_needs_reduction)
        q == MaybeScalar_from_slice(q_bytes)
        r == MaybeScalar_from_slice(modulus_neg_bytes)
    IN  MaybeScalar_from_slice_path(q_bytes) \o
        (IF q.tag = "Err" THEN <<"unwrap q: panic">>
         ELSE MaybeScalar_from_slice_path(modulus_neg_bytes) \o
              (IF r.tag = "Err" THEN <<"unwrap r: panic">>
               ELSE IF z_needs_reduction
                    THEN <<"if z_needs_reduction: r - q">> \o
                         subtract_any_path(r.value, q.value)
                    ELSE <<"if z_needs_reduction: q">>))

reduce_from_internal_path(z_bytes, modulus) ==
    LET modulus_neg_bytes == xor_arrays(modulus, MAX_U256)
        z_bytes_neg == xor_arrays(z_bytes, MAX_U256)
        z_needs_reduction == Ordering_ct_gt(ct_slice_lex_cmp(z_bytes, modulus), "Less")
        q_bytes == conditional_select(z_bytes, z_bytes_neg, z_needs_reduction)
        q == MaybeScalar_from_slice(q_bytes)
        r == MaybeScalar_from_slice(modulus_neg_bytes)
    IN  MaybeScalar_from_slice_path(q_bytes) \o
        (IF q.tag = "Err" THEN <<"unwrap q: panic">>
         ELSE MaybeScalar_from_slice_path(modulus_neg_bytes) \o
              (IF r.tag = "Err" THEN <<"unwrap r: panic">>
               ELSE subtract_any_path(r.value, q.value) \o
                    MaybeScalar_conditional_select_path(
                        q.value, subtract_any(r.value, q.value), z_needs_reduction)))

reduce_from_path(z_bytes) ==
    LET reduced == reduce_from_internal(z_bytes, CURVE_ORDER_MINUS_ONE_BYTES)
    IN  reduce_from_internal_path(z_bytes, CURVE_ORDER_MINUS_ONE_BYTES) \o
        (IF reduced.tag = "Panic" THEN <<>>
         ELSE add_any_path(reduced, Valid(SCALAR_ONE)) \o
              (IF add_any(reduced, Valid(SCALAR_ONE)).tag = "Zero"
               THEN <<"unwrap: panic">> ELSE <<"unwrap: Valid">>))

\* the loop of ct_slice_lex_cmp leaving at the first position where the
\* slices differ
RECURSIVE LexLoop_path_break(_, _, _)
LexLoop_path_break(lhs, rhs, i) ==
    IF i > Min(Len(lhs), Len(rhs)) THEN <<>>
    ELSE <<"for (v1, v2): whole_slice_is_gt |=, whole_slice_is_eq &=">> \o
         (IF lhs[i] # rhs[i] THEN <<"break">>
          ELSE LexLoop_path_break(lhs, rhs, i + 1))

\* the iterations of the loop of ct_slice_lex_cmp from position i on
RECURSIVE LexLoop_path(_, _, _)
LexLoop_path(lhs, rhs, i) ==
    IF i > Min(Len(lhs), Len(rhs)) THEN <<>>
    ELSE <<"for (v1, v2): whole_slice_is_gt |=, whole_slice_is_eq &=">> \o
         LexLoop_path(lhs, rhs, i + 1)

\* the steps of ct_slice_lex_cmp: the loop, the two length comparisons and
\* the four conditional assignments
ct_slice_lex_cmp_path(lhs, rhs) ==
    LexLoop_path(lhs, rhs, 1) \o
    <<"lhs_is_longer = l_len.ct_gt(r_len)", "rhs_is_longer = r_len.ct_gt(l_len)",
      "order.conditional_assign(Equal, whole_slice_is_eq)",
      "order.conditional_assign(Greater, whole_slice_is_eq & lhs_is_longer)",
      "order.conditional_assign(Less, whole_slice_is_eq & rhs_is_longer)",
      "order.conditional_assign(Greater, whole_slice_is_gt)">>

(***************************************************************************)
(* Points and tweaks (utils.rs)                                            *)
(***************************************************************************)
\* the values of k256::PublicKey: the point k*G for k in 1 .. n-1
PublicKey == 1 .. (CurveOrder - 1)

\* the generator G
Generator == 1

\* Scalar::base_point_mul: the point self*G
base_point_mul(self) == (self * Generator) % CurveOrder

\* the group law on points, 0 being the point at infinity
point_add(p, q) == (p + q) % CurveOrder

\* MaybePublicKey::Infinity
Infinity == [tag |-> "Infinity"]

\* MaybePublicKey::Valid
ValidPoint(p) == [tag |-> "Valid", point |-> p]

MaybePublicKey == {Infinity} \cup {ValidPoint(p) : p \in PublicKey}

\* PublicKey + PublicKey
PublicKey_add(self, other) ==
    IF point_add(self, other) = 0 THEN Infinity
    ELSE ValidPoint(point_add(self, other))

PublicKey_add_path(self, other) ==
    IF PublicKey_add(self, other).tag = "Infinity"
    THEN <<"PublicKey + PublicKey: unwrap_or(Infinity)">>
    ELSE <<"PublicKey + PublicKey: map">>

\* add_any on points; an operand of type PublicKey or G is passed as
\* ValidPoint(p), which is what Optional::option makes of it
add_any_point(a, b) ==
    IF a.tag = "Infinity"
    THEN (IF b.tag = "Infinity" THEN Infinity ELSE ValidPoint(b.point))
    ELSE (IF b.tag = "Infinity" THEN ValidPoint(a.point)
          ELSE PublicKey_add(a.point, b.point))

add_any_point_path(a, b) ==
    IF a.tag = "Infinity"
    THEN (IF b.tag = "Infinity" THEN <<"add_any: None, None">>
          ELSE <<"add_any: None, Some">>)
    ELSE (IF b.tag = "Infinity" THEN <<"add_any: Some, None">>
          ELSE <<"add_any: Some, Some">> \o PublicKey_add_path(a.point, b.point))

\* Scalar * G
Scalar_mul_G(self) == base_point_mul(self)

\* G * Scalar
G_mul_Scalar(scalar) == base_point_mul(scalar)

\* PublicKey * Scalar adding scalar*G to the point
PublicKey_mul_as_add(self, scalar) ==
    IF self = 0 THEN Panic ELSE Ret((self + scalar) % CurveOrder)

\* PublicKey * Scalar: NonIdentity::new(..).unwrap() panics on the identity
PublicKey_mul(self, scalar) ==
    IF self = 0 THEN Panic ELSE Ret((self * scalar) % CurveOrder)

\* Scalar * PublicKey
Scalar_mul_PublicKey(self, public_key) == PublicKey_mul(public_key, self)

\* multiply_any on a point and a scalar
multiply_any_point(a, b) ==
    IF a.tag = "Infinity" \/ b.tag = "Zero" THEN Infinity
    ELSE LET product == PublicKey_mul(a.point, b.scalar)
         IN  IF product.tag = "Panic" THEN Panic ELSE ValidPoint(product.value)

\* PublicKey::generator(): the point G
PublicKey_generator == Generator

\* -PublicKey handing back the point itself
PublicKey_neg_identity(self) == self

\* -PublicKey
PublicKey_neg(self) == (CurveOrder - self) % CurveOrder

\* -MaybePublicKey
MaybePublicKey_neg(self) ==
    IF self.tag = "Valid" THEN ValidPoint(PublicKey_neg(self.point)) ELSE Infinity

\* subtract_any on points
subtract_any_point(a, b) == add_any_point(a, MaybePublicKey_neg(b))

\* PublicKey / Scalar
PublicKey_div(self, rhs) == PublicKey_mul(self, Scalar_invert(rhs))

\* divide_any on a point and a scalar
divide_any_point(a, b) ==
    IF a.tag = "Infinity" THEN Infinity
    ELSE LET quotient == PublicKey_div(a.point, b)
         IN  IF quotient.tag = "Panic" THEN Panic ELSE ValidPoint(quotient.value)

\* Optional<PublicKey> for G
G_option == ValidPoint(PublicKey_generator)

\* G + G multiplying the base point by Scalar::one()
G_add_G_one == base_point_mul(SCALAR_ONE)

\* G + G
G_add_G == base_point_mul(SCALAR_TWO)

\* -G
G_neg == PublicKey_neg(PublicKey_generator)

\* G - G: subtract_any(G, G) = G + (-G), an add_any of G and a PublicKey
G_sub_G == add_any_point(G_option, ValidPoint(G_neg))

\* Scalar::curve_order_minus_one(), called by add_tweak
curve_order_minus_one == CurveOrder - 1

\* add_tweak handing back the sum without looking at the Zero case
add_tweak_unchecked(sk, tweak) ==
    IF greater_than_curve_order_minus_one(sk)
       \/ greater_than_curve_order_minus_one(tweak)
    THEN Err("Secret key and tweak cannot be greater than or equal to the Secp256k1 curve order")
    ELSE Ok((sk + tweak) % CurveOrder)

add_tweak(sk, tweak) ==
    LET sk_scalar == sk
        secp_order_minus_one == curve_order_minus_one
    IN  IF greater_than_curve_order_minus_one(sk_scalar)
           \/ greater_than_curve_order_minus_one(tweak)
        THEN Err("Secret key and tweak cannot be greater than or equal to the Secp256k1 curve order")
        ELSE LET sum == Scalar_add(sk_scalar, tweak)
             IN  IF sum.tag = "Zero"
                 THEN Err("Invalid scalar value, greater than or equal to curve order")
                 ELSE LET sk_prime == sum.scalar
                      IN  IF ~greater_than_curve_order_minus_one(sk_prime)
                          THEN Ok(sk_prime)
                          ELSE LET reduced == Scalar_add(sk_prime, Scalar_neg(secp_order_minus_one))
                               IN  IF reduced.tag = "Zero"
                                   THEN Err("Invalid scalar value 2")
                                   ELSE Ok(reduced.scalar)

\* the if and match arms add_tweak runs through
add_tweak_path(sk, tweak) ==
    LET sk_scalar == sk
        secp_order_minus_one == curve_order_minus_one
    IN  IF greater_than_curve_order_minus_one(sk_scalar)
           \/ greater_than_curve_order_minus_one(tweak)
        THEN <<"if sk or tweak greater than n - 1: return Err">>
        ELSE LET sum == Scalar_add(sk_scalar, tweak)
             IN  IF sum.tag = "Zero"
                 THEN <<"match sk_scalar + tweak: Zero, return Err">>
                 ELSE <<"match sk_scalar + tweak: Valid">> \o
                      (IF ~greater_than_curve_order_minus_one(sum.scalar)
                       THEN <<"if !sk_prime greater than n - 1: return Ok">>
                       ELSE IF Scalar_add(sum.scalar, Scalar_neg(secp_order_minus_one)).tag = "Zero"
                            THEN <<"match sk_prime + (-(n - 1)): Zero, Err">>
                            ELSE <<"match sk_prime + (-(n - 1)): Valid, Ok">>)

add_exp_tweak(pk, tweak) == Ok(pk)

(***************************************************************************)
(* Parity (common/types.rs)                                                *)
(***************************************************************************)
Parity == {"Even", "Odd"}

\* the values of u8
U8 == 0 .. (Pow2(8) - 1)

\* the values of i32 handed to Parity::from_i32: those around 0 and the two
\* ends of the type
I32Inputs == ((0 - ParityBound) .. ParityBound) \cup {2147483647, (0 - 2147483647) - 1}

InvalidParityValue(v) == [name |-> "InvalidParityValue", value |-> v]

Parity_to_u8(self) == IF self = "Even" THEN 0 ELSE 1

Parity_to_i32(self) == IF self = "Even" THEN 0 ELSE 1

\* Parity::from_i32 looking at the lowest bit only
Parity_from_i32_low_bit(parity) ==
    IF parity % 2 = 0 THEN Ok("Even") ELSE Ok("Odd")

Parity_from_i32(parity) ==
    IF parity = 0 THEN Ok("Even")
    ELSE IF parity = 1 THEN Ok("Odd")
    ELSE Err(InvalidParityValue(parity))

Parity_from_u8(parity) == Parity_from_i32(parity)

\* Parity ^ Parity giving Odd as soon as one operand is Odd
Parity_bitxor_as_or(self, rhs) ==
    IF self = "Odd" \/ rhs = "Odd" THEN "Odd" ELSE "Even"

\* BitXor for Parity
Parity_bitxor(self, rhs) == IF self = rhs THEN "Even" ELSE "Odd"

(***************************************************************************)
(* The lazily initialised constants (crypto/scalar.rs).  SCALAR_ONE,       *)
(* SCALAR_TWO, SCALAR_HALF_ORDER and SCALAR_MAX are statics of type        *)
(* once_cell::sync::Lazy<Scalar>; Scalar::one() and its siblings           *)
(* dereference them.  A Lazy is an initialiser that is taken when it runs  *)
(* and a OnceCell: an atomic state INCOMPLETE / RUNNING / COMPLETE and a   *)
(* slot for the value.  Each step below is one atomic access of            *)
(* OnceCell::get_or_init and initialize_or_wait.                           *)
(***************************************************************************)
Threads == 1 .. NumThreads

LazyStatics == {"SCALAR_ONE", "SCALAR_TWO", "SCALAR_HALF_ORDER", "SCALAR_MAX"}

\* the value the initialiser of a static evaluates to
Initialiser(c) ==
    CASE c = "SCALAR_ONE" -> SCALAR_ONE
      [] c = "SCALAR_TWO" -> SCALAR_TWO
      [] c = "SCALAR_HALF_ORDER" -> SCALAR_HALF_ORDER
      [] c = "SCALAR_MAX" -> SCALAR_MAX

\* Option<Scalar>
None == [tag |-> "None"]

Some(v) == [tag |-> "Some", value |-> v]

\* a Lazy before its first access
NewLazy == [state |-> "INCOMPLETE", slot |-> None, init |-> "Some"]

\* a thread outside any access
IdleThread == [pc |-> "idle", cell |-> "none", seen |-> None]

\* where initialize_or_wait goes on after reading the state
MatchState(state) ==
    CASE state = "COMPLETE" -> "get_unchecked"
      [] state = "INCOMPLETE" -> "compare_exchange"
      [] state = "RUNNING" -> "wait"

\* a plain store in place of the compare-and-exchange
compare_exchange_store(state, current, new) == [ok |-> TRUE, state |-> new]

\* AtomicPtr::compare_exchange on the state of the cell
compare_exchange(state, current, new) ==
    IF state = current THEN [ok |-> TRUE, state |-> new]
    ELSE [ok |-> FALSE, state |-> state]

\* Scalar::one() and its siblings start to dereference their static
LazyDeref ==
    /\ \E t \in Threads, c \in LazyStatics :
        /\ threads[t].pc = "idle"
        /\ threads' = [threads EXCEPT ![t] = [pc |-> "get", cell |-> c, seen |-> None]]
    /\ UNCHANGED <<cells, runs, client>>

\* OnceCell::get: the fast path when the cell is initialised
LazyGet ==
    /\ \E t \in Threads :
        /\ threads[t].pc = "get"
        /\ threads' = [threads EXCEPT ![t].pc =
               IF cells[threads[t].cell].state = "COMPLETE"
               THEN "get_unchecked" ELSE "initialize"]
    /\ UNCHANGED <<cells, runs, client>>

\* initialize_or_wait: the first load of the state
LazyLoad ==
    /\ \E t \in Threads :
        /\ threads[t].pc = "initialize"
        /\ threads' = [threads EXCEPT ![t].pc = MatchState(cells[threads[t].cell].state)]
    /\ UNCHANGED <<cells, runs, client>>

\* initialize_or_wait: the state read was INCOMPLETE, the thread tries to
\* move it to RUNNING; on failure it goes on with the state it found
LazyCompareExchange ==
    /\ \E t \in Threads :
        LET c == threads[t].cell
            cas == compare_exchange(cells[c].state, "INCOMPLETE", "RUNNING")
        IN  /\ threads[t].pc = "compare_exchange"
            /\ cells' = [cells EXCEPT ![c].state = cas.state]
            /\ threads' = [threads EXCEPT ![t].pc =
                   IF cas.ok THEN "init" ELSE MatchState(cas.state)]
    /\ UNCHANGED <<runs, client>>

\* initialize_or_wait: the state read was RUNNING, the thread is parked until
\* the initialising thread changes the state and wakes it
LazyWait ==
    /\ \E t \in Threads :
        /\ threads[t].pc = "wait"
        /\ cells[threads[t].cell].state # "RUNNING"
        /\ threads' = [threads EXCEPT ![t].pc = MatchState(cells[threads[t].cell].state)]
    /\ UNCHANGED <<cells, runs, client>>

\* the closure of Lazy::force: it takes the initialiser and runs it; an
\* initialiser already taken or one that panics leaves the cell INCOMPLETE
LazyInit ==
    /\ \E t \in Threads :
        LET c == threads[t].cell
        IN  /\ threads[t].pc = "init"
            /\ IF cells[c].init = "None"
               THEN /\ cells' = [cells EXCEPT ![c].state = "INCOMPLETE"]
                    /\ threads' = [threads EXCEPT ![t].pc = "panicked"]
                    /\ runs' = runs
               ELSE /\ runs' = [runs EXCEPT ![c] = @ + 1]
                    /\ IF Initialiser(c) \in Scalar
                       THEN /\ cells' = [cells EXCEPT ![c].init = "None",
                                                      ![c].slot = Some(Initialiser(c))]
                            /\ threads' = [threads EXCEPT ![t].pc = "guard_drop"]
                       ELSE /\ cells' = [cells EXCEPT ![c].init = "None",
                                                      ![c].state = "INCOMPLETE"]
                            /\ threads' = [threads EXCEPT ![t].pc = "panicked"]
    /\ UNCHANGED client

\* Guard::drop after the initialiser returned: the state becomes COMPLETE
\* and the parked threads are woken
LazyGuardDrop ==
    /\ \E t \in Threads :
        /\ threads[t].pc = "guard_drop"
        /\ cells' = [cells EXCEPT ![threads[t].cell].state = "COMPLETE"]
        /\ threads' = [threads EXCEPT ![t].pc = "get_unchecked"]
    /\ UNCHANGED <<runs, client>>

\* OnceCell::get_unchecked: the thread reads the slot
LazyGetUnchecked ==
    /\ \E t \in Threads :
        /\ threads[t].pc = "get_unchecked"
        /\ threads' = [threads EXCEPT ![t].pc = "done",
                                      ![t].seen = cells[threads[t].cell].slot]
    /\ UNCHANGED <<cells, runs, client>>

\* Scalar::one() and its siblings return the copy of the value
LazyReturn ==
    /\ \E t \in Threads :
        /\ threads[t].pc = "done"
        /\ threads' = [threads EXCEPT ![t] = IdleThread]
    /\ UNCHANGED <<cells, runs, client>>

NextLazy ==
    \/ LazyDeref
    \/ LazyGet
    \/ LazyLoad
    \/ LazyCompareExchange
    \/ LazyWait
    \/ LazyInit
    \/ LazyGuardDrop
    \/ LazyGetUnchecked
    \/ LazyReturn

(***************************************************************************)
(* The client: it calls one public operation, looks at the result and is  *)
(* ready for the next call.  The operations share no state, so a call's   *)
(* result depends on its arguments only.                                  *)
(***************************************************************************)
Init ==
    /\ op = "idle"
    /\ arg = <<>>
    /\ ret = [tag |-> "None"]
    /\ path = <<>>
    /\ cells = [c \in LazyStatics |-> NewLazy]
    /\ threads = [t \in Threads |-> IdleThread]
    /\ runs = [c \in LazyStatics |-> 0]

CallReduceFrom ==
    /\ UNCHANGED lazy
    /\ op = "idle"
    /\ \E z_bytes \in ByteArray :
        /\ op' = "Scalar::reduce_from"
        /\ arg' = <<z_bytes>>
        /\ ret' = reduce_from(z_bytes)
        /\ path' = reduce_from_path(z_bytes)

CallScalarFromSlice ==
    /\ UNCHANGED lazy
    /\ op = "idle"
    /\ \E bytes \in Slices :
        /\ op' = "Scalar::from_slice"
        /\ arg' = <<bytes>>
        /\ ret' = Scalar_from_slice(bytes)
        /\ path' = Scalar_from_slice_path(bytes)

CallMaybeScalarFromSlice ==
    /\ UNCHANGED lazy
    /\ op = "idle"
    /\ \E bytes \in Slices :
        /\ op' = "MaybeScalar::from_slice"
        /\ arg' = <<bytes>>
        /\ ret' = MaybeScalar_from_slice(bytes)
        /\ path' = MaybeScalar_from_slice_path(bytes)

CallSerialize ==
    /\ UNCHANGED lazy
    /\ op = "idle"
    /\ \E s \in Scalar :
        /\ op' = "Scalar::serialize"
        /\ arg' = <<s>>
        /\ ret' = Ret(Scalar_serialize(s))
        /\ path' = <<>>

CallAdd ==
    /\ UNCHANGED lazy
    /\ op = "idle"
    /\ \E a \in Scalar, b \in Scalar :
        /\ op' = "Scalar + Scalar"
        /\ arg' = <<a, b>>
        /\ ret' = Scalar_add(a, b)
        /\ path' = Scalar_add_path(a, b)

CallMul ==
    /\ UNCHANGED lazy
    /\ op = "idle"
    /\ \E a \in Scalar, b \in Scalar :
        /\ op' = "Scalar * Scalar"
        /\ arg' = <<a, b>>
        /\ ret' = Ret(Scalar_mul(a, b))
        /\ path' = <<>>

CallAddTweak ==
    /\ UNCHANGED lazy
    /\ op = "idle"
    /\ \E sk \in Scalar, tweak \in Scalar :
        /\ op' = "add_tweak"
        /\ arg' = <<sk, tweak>>
        /\ ret' = add_tweak(sk, tweak)
        /\ path' = add_tweak_path(sk, tweak)

CallAddExpTweak ==
    /\ UNCHANGED lazy
    /\ op = "idle"
    /\ \E pk \in PublicKey, tweak \in Scalar :
        /\ op' = "add_exp_tweak"
        /\ arg' = <<pk, tweak>>
        /\ ret' = add_exp_tweak(pk, tweak)
        /\ path' = <<>>

CallConstant ==
    /\ UNCHANGED lazy
    /\ op = "idle"
    /\ \E c \in {<<"Scalar::one", SCALAR_ONE>>, <<"Scalar::two", SCALAR_TWO>>,
                 <<"Scalar::half_order", SCALAR_HALF_ORDER>>,
                 <<"Scalar::max", SCALAR_MAX>>} :
        /\ op' = c[1]
        /\ arg' = <<>>
        /\ ret' = Ret(c[2])
        /\ path' = <<>>

\* the operations that hand the client a Scalar
ScalarOps ==
    {"Scalar::from_slice", "Scalar::reduce_from", "Scalar::one", "Scalar::two",
     "Scalar::half_order", "Scalar::max", "Scalar * Scalar", "-Scalar",
     "MaybeScalar::unwrap"}

\* the last call handed the client a Scalar
HoldsScalar == op \in ScalarOps /\ ret.tag \in {"Ok", "Ret"}

\* the client multiplies the Scalar it was handed by another one
ThenMul ==
    /\ UNCHANGED lazy
    /\ HoldsScalar
    /\ \E b \in Scalar :
        /\ op' = "Scalar * Scalar"
        /\ arg' = <<ret.value, b>>
        /\ ret' = Ret(Scalar_mul(ret.value, b))
        /\ path' = <<>>

\* the client negates the Scalar it was handed
ThenNeg ==
    /\ UNCHANGED lazy
    /\ HoldsScalar
    /\ op' = "-Scalar"
    /\ arg' = <<ret.value>>
    /\ ret' = Ret(Scalar_neg(ret.value))
    /\ path' = <<>>

\* the client adds another Scalar to the one it was handed
ThenAdd ==
    /\ UNCHANGED lazy
    /\ HoldsScalar
    /\ \E b \in Scalar :
        /\ op' = "Scalar + Scalar"
        /\ arg' = <<ret.value, b>>
        /\ ret' = Scalar_add(ret.value, b)
        /\ path' = Scalar_add_path(ret.value, b)

\* the client unwraps the MaybeScalar a sum gave it
ThenUnwrap ==
    /\ UNCHANGED lazy
    /\ op = "Scalar + Scalar"
    /\ op' = "MaybeScalar::unwrap"
    /\ arg' = <<ret>>
    /\ ret' = MaybeScalar_unwrap(ret)
    /\ path' = <<>>

CallAddAny ==
    /\ UNCHANGED lazy
    /\ op = "idle"
    /\ \E a \in MaybeScalar, b \in MaybeScalar :
        /\ op' = "MaybeScalar + MaybeScalar"
        /\ arg' = <<a, b>>
        /\ ret' = add_any(a, b)
        /\ path' = add_any_path(a, b)

CallAddAnyPoint ==
    /\ UNCHANGED lazy
    /\ op = "idle"
    /\ \E a \in MaybePublicKey, b \in MaybePublicKey :
        /\ op' = "MaybePublicKey + MaybePublicKey"
        /\ arg' = <<a, b>>
        /\ ret' = add_any_point(a, b)
        /\ path' = add_any_point_path(a, b)

CallMulAny ==
    /\ UNCHANGED lazy
    /\ op = "idle"
    /\ \E a \in MaybeScalar, b \in MaybeScalar :
        /\ op' = "MaybeScalar * MaybeScalar"
        /\ arg' = <<a, b>>
        /\ ret' = multiply_any(a, b)
        /\ path' = <<>>

CallMulAnyPoint ==
    /\ UNCHANGED lazy
    /\ op = "idle"
    /\ \E a \in MaybePublicKey, b \in MaybeScalar :
        /\ op' = "MaybePublicKey * MaybeScalar"
        /\ arg' = <<a, b>>
        /\ ret' = multiply_any_point(a, b)
        /\ path' = <<>>

CallSubAny ==
    /\ UNCHANGED lazy
    /\ op = "idle"
    /\ \E a \in MaybeScalar, b \in MaybeScalar :
        /\ op' = "MaybeScalar - MaybeScalar"
        /\ arg' = <<a, b>>
        /\ ret' = subtract_any(a, b)
        /\ path' = subtract_any_path(a, b)

CallSubAnyPoint ==
    /\ UNCHANGED lazy
    /\ op = "idle"
    /\ \E a \in MaybePublicKey, b \in MaybePublicKey :
        /\ op' = "MaybePublicKey - MaybePublicKey"
        /\ arg' = <<a, b>>
        /\ ret' = subtract_any_point(a, b)
        /\ path' = <<>>

CallNegMaybe ==
    /\ UNCHANGED lazy
    /\ op = "idle"
    /\ \/ \E a \in MaybeScalar :
            /\ op' = "-MaybeScalar"
            /\ arg' = <<a>>
            /\ ret' = MaybeScalar_neg(a)
            /\ path' = MaybeScalar_neg_path(a)
       \/ \E a \in MaybePublicKey :
            /\ op' = "-MaybePublicKey"
            /\ arg' = <<a>>
            /\ ret' = MaybePublicKey_neg(a)
            /\ path' = <<>>

CallDiv ==
    /\ UNCHANGED lazy
    /\ op = "idle"
    /\ \E a \in Scalar, b \in Scalar :
        /\ op' = "Scalar / Scalar"
        /\ arg' = <<a, b>>
        /\ ret' = Ret(Scalar_div(a, b))
        /\ path' = <<>>

CallDivAny ==
    /\ UNCHANGED lazy
    /\ op = "idle"
    /\ \/ \E a \in MaybeScalar, b \in Scalar :
            /\ op' = "MaybeScalar / Scalar"
            /\ arg' = <<a, b>>
            /\ ret' = divide_any(a, b)
            /\ path' = <<>>
       \/ \E a \in MaybePublicKey, b \in Scalar :
            /\ op' = "MaybePublicKey / Scalar"
            /\ arg' = <<a, b>>
            /\ ret' = divide_any_point(a, b)
            /\ path' = <<>>

CallAddPoints ==
    /\ UNCHANGED lazy
    /\ op = "idle"
    /\ \E p \in PublicKey, q \in PublicKey :
        /\ op' = "PublicKey + PublicKey"
        /\ arg' = <<p, q>>
        /\ ret' = PublicKey_add(p, q)
        /\ path' = PublicKey_add_path(p, q)

CallMulPoint ==
    /\ UNCHANGED lazy
    /\ op = "idle"
    /\ \E p \in PublicKey, s \in Scalar :
        /\ op' = "PublicKey * Scalar"
        /\ arg' = <<p, s>>
        /\ ret' = PublicKey_mul(p, s)
        /\ path' = <<>>

CallBasePointMul ==
    /\ UNCHANGED lazy
    /\ op = "idle"
    /\ \E s \in Scalar :
        /\ op' = "Scalar::base_point_mul"
        /\ arg' = <<s>>
        /\ ret' = Ret(base_point_mul(s))
        /\ path' = <<>>

CallGenerator ==
    /\ UNCHANGED lazy
    /\ op = "idle"
    /\ path' = <<>>
    /\ \/ /\ op' = "G + G"
          /\ arg' = <<>>
          /\ ret' = Ret(G_add_G)
       \/ /\ op' = "G - G"
          /\ arg' = <<>>
          /\ ret' = G_sub_G
       \/ \E s \in Scalar :
          /\ op' = "G * Scalar"
          /\ arg' = <<s>>
          /\ ret' = Ret(G_mul_Scalar(s))

CallCtSliceLexCmp ==
    /\ UNCHANGED lazy
    /\ op = "idle"
    /\ \E lhs \in CmpSlices, rhs \in CmpSlices :
        /\ arg' = <<lhs, rhs>>
        /\ path' = ct_slice_lex_cmp_path(lhs, rhs)
        /\ \/ /\ op' = "crypto::utils::ct_slice_lex_cmp"
              /\ ret' = Ret(ct_slice_lex_cmp(lhs, rhs))
           \/ /\ op' = "utils::ct_slice_lex_cmp"
              /\ ret' = Ret(utils_ct_slice_lex_cmp(lhs, rhs))

CallParityFrom ==
    /\ UNCHANGED lazy
    /\ op = "idle"
    /\ path' = <<>>
    /\ \/ \E v \in U8 :
            /\ op' = "Parity::from_u8"
            /\ arg' = <<v>>
            /\ ret' = Parity_from_u8(v)
       \/ \E v \in I32Inputs :
            /\ op' = "Parity::from_i32"
            /\ arg' = <<v>>
            /\ ret' = Parity_from_i32(v)

CallParityTo ==
    /\ UNCHANGED lazy
    /\ op = "idle"
    /\ path' = <<>>
    /\ \E p \in Parity :
        /\ arg' = <<p>>
        /\ \/ /\ op' = "Parity::to_u8"
              /\ ret' = Ret(Parity_to_u8(p))
           \/ /\ op' = "Parity::to_i32"
              /\ ret' = Ret(Parity_to_i32(p))

CallParityXor ==
    /\ UNCHANGED lazy
    /\ op = "idle"
    /\ path' = <<>>
    /\ \E a \in Parity, b \in Parity :
        /\ op' = "Parity ^ Parity"
        /\ arg' = <<a, b>>
        /\ ret' = Ret(Parity_bitxor(a, b))

CallMaybeScalarInto ==
    /\ UNCHANGED lazy
    /\ op = "idle"
    /\ path' = <<>>
    /\ \/ \E m \in MaybeScalar :
            /\ arg' = <<m>>
            /\ \/ /\ op' = "MaybeScalar::is_zero"
                  /\ ret' = Ret(MaybeScalar_is_zero(m))
               \/ /\ op' = "MaybeScalar::into_option"
                  /\ ret' = MaybeScalar_into_option(m)
               \/ /\ op' = "MaybeScalar::not_zero"
                  /\ ret' = MaybeScalar_not_zero(m)
               \/ /\ op' = "Scalar::try_from(MaybeScalar)"
                  /\ ret' = Scalar_try_from_MaybeScalar(m)
               \/ /\ op' = "MaybeScalar::unwrap"
                  /\ ret' = MaybeScalar_unwrap(m)
       \/ /\ op' = "MaybeScalar::default"
          /\ arg' = <<>>
          /\ ret' = MaybeScalar_default

CallReduceFromInternal ==
    /\ UNCHANGED lazy
    /\ op = "idle"
    /\ \E z_bytes \in ByteArray, modulus \in AdmissibleModuli :
        /\ op' = "MaybeScalar::reduce_from_internal"
        /\ arg' = <<z_bytes, modulus>>
        /\ ret' = reduce_from_internal(z_bytes, modulus)
        /\ path' = reduce_from_internal_path(z_bytes, modulus)

CallXorArrays ==
    /\ UNCHANGED lazy
    /\ op = "idle"
    /\ path' = <<>>
    /\ \E arr1 \in ByteArray, arr2 \in ByteArray :
        /\ op' = "xor_arrays"
        /\ arg' = <<arr1, arr2>>
        /\ ret' = Ret(xor_arrays(arr1, arr2))

\* subtle::Choice is 0 or 1
CallConditionalSelect ==
    /\ UNCHANGED lazy
    /\ op = "idle"
    /\ \E a \in MaybeScalar, b \in MaybeScalar, choice \in {0, 1} :
        /\ op' = "MaybeScalar::conditional_select"
        /\ arg' = <<a, b, choice>>
        /\ ret' = MaybeScalar_conditional_select(a, b, choice = 1)
        /\ path' = MaybeScalar_conditional_select_path(a, b, choice = 1)

CallGreaterThan ==
    /\ UNCHANGED lazy
    /\ op = "idle"
    /\ path' = <<>>
    /\ \E s \in Scalar :
        /\ op' = "Scalar::greater_than_curve_order_minus_one"
        /\ arg' = <<s>>
        /\ ret' = Ret(greater_than_curve_order_minus_one(s))

\* the client drops the result and is ready for the next call
Return ==
    /\ UNCHANGED lazy
    /\ op # "idle"
    /\ op' = "idle"
    /\ arg' = <<>>
    /\ ret' = [tag |-> "None"]
    /\ path' = <<>>

Next ==
    \/ CallReduceFrom
    \/ CallScalarFromSlice
    \/ CallMaybeScalarFromSlice
    \/ CallSerialize
    \/ CallAdd
    \/ CallMul
    \/ CallAddTweak
    \/ CallAddExpTweak
    \/ CallAddAny
    \/ CallAddAnyPoint
    \/ CallMulAny
    \/ CallMulAnyPoint
    \/ CallSubAny
    \/ CallSubAnyPoint
    \/ CallNegMaybe
    \/ CallDiv
    \/ CallDivAny
    \/ CallAddPoints
    \/ CallMulPoint
    \/ CallBasePointMul
    \/ CallGenerator
    \/ CallCtSliceLexCmp
    \/ CallParityFrom
    \/ CallParityTo
    \/ CallParityXor
    \/ CallMaybeScalarInto
    \/ CallReduceFromInternal
    \/ CallXorArrays
    \/ CallConditionalSelect
    \/ CallGreaterThan
    \/ Return

Spec == Init /\ [][Next]_vars

\* the client chaining the operations that yield a Scalar
NextScalar ==
    \/ CallReduceFrom
    \/ CallScalarFromSlice
    \/ CallConstant
    \/ ThenMul
    \/ ThenNeg
    \/ ThenAdd
    \/ ThenUnwrap
    \/ Return

SpecScalar == Init /\ [][NextScalar]_vars

\* threads reading the lazily initialised constants concurrently
SpecLazy == Init /\ [][NextLazy]_vars

(***************************************************************************)
(* Properties                                                              *)
(***************************************************************************)
\* C1: for every array z, Scalar::reduce_from(z) returns the scalar whose
\* value is exactly (z mod (n-1)) + 1.
C1_ReduceFromValue ==
    op = "Scalar::reduce_from" =>
        ret = Ok((BeValue(arg[1]) % (CurveOrder - 1)) + 1)

\* reduce_from has returned for an input above the curve order, which went
\* through the subtraction r - q
C1_Witness ==
    /\ op = "Scalar::reduce_from"
    /\ BeValue(arg[1]) > CurveOrder
    /\ ret.tag = "Ok"

\* C2: for every array, Scalar::reduce_from returns a value v with
\* 1 <= v < n and its final unwrap never meets Zero; the all-zero input
\* yields 1 and the all-ones input a value below n.
C2_ReduceFromRange ==
    op = "Scalar::reduce_from" =>
        /\ ret.tag = "Ok"
        /\ ret.value \in 1 .. (CurveOrder - 1)
        /\ (arg[1] = ZERO_BYTES => ret.value = 1)
        /\ (arg[1] = MAX_U256 => ret.value < CurveOrder)

\* reduce_from has returned for the all-ones input
C2_Witness ==
    /\ op = "Scalar::reduce_from"
    /\ arg[1] = MAX_U256
    /\ ret.tag = "Ok"

\* the inputs of reduce_from for which one of the intermediate values q,
\* r - q or the selected value is zero: 0, MAX - (n-1), n-1 and MAX
ReduceFromZeroInputs ==
    {ZERO_BYTES, xor_arrays(CURVE_ORDER_MINUS_ONE_BYTES, MAX_U256),
     CURVE_ORDER_MINUS_ONE_BYTES, MAX_U256}

C4_AddExpTweakSum ==
    op = "add_exp_tweak" =>
        LET sum == point_add(arg[1], base_point_mul(arg[2]))
        IN  IF sum = 0 THEN ret = Err("InvalidTweak") ELSE ret = Ok(sum)

\* C5: add_tweak(sk, tweak) never returns a zero key: it fails when
\* (sk + tweak) mod n = 0, and a successful result is (sk + tweak) mod n.
C5_AddTweakNeverZero ==
    op = "add_tweak" =>
        LET sum == (arg[1] + arg[2]) % CurveOrder
        IN  /\ (sum = 0 => ret.tag = "Err")
            /\ (ret.tag = "Ok" => ret.value = sum /\ ret.value # 0)

\* add_tweak has been called with a tweak that cancels the key
C5_Witness ==
    /\ op = "add_tweak"
    /\ (arg[1] + arg[2]) % CurveOrder = 0
    /\ ret.tag = "Err"

\* C6: Scalar parsing succeeds exactly when the input is SIZE elements whose
\* big-endian value v satisfies 1 <= v < n, and then returns the scalar v;
\* for zero, a value >= n or another length it returns InvalidScalarBytes.
C6_ScalarParse ==
    op = "Scalar::from_slice" =>
        LET bytes == arg[1]
            v == BeValue(bytes)
        IN  IF Len(bytes) = SIZE /\ 1 <= v /\ v < CurveOrder
            THEN ret = Ok(v)
            ELSE ret = Err("InvalidScalarBytes")

\* Scalar::from_slice has rejected an array of the right length whose value
\* is the curve order or more
C6_Witness ==
    /\ op = "Scalar::from_slice"
    /\ Len(arg[1]) = SIZE
    /\ BeValue(arg[1]) >= CurveOrder
    /\ ret.tag = "Err"

\* C7: MaybeScalar::from_slice returns Zero for the all-zero array, Valid(s)
\* for an array with value in [1, n), and InvalidScalarBytes for every other
\* input: value >= n, or another length even when every element is zero.
C7_MaybeScalarParse ==
    op = "MaybeScalar::from_slice" =>
        LET bytes == arg[1]
            v == BeValue(bytes)
        IN  IF Len(bytes) = SIZE /\ v = 0 THEN ret = Ok(Zero)
            ELSE IF Len(bytes) = SIZE /\ v < CurveOrder THEN ret = Ok(Valid(v))
            ELSE ret = Err("InvalidScalarBytes")

\* MaybeScalar::from_slice has rejected an all-zero slice of another length
C7_Witness ==
    /\ op = "MaybeScalar::from_slice"
    /\ Len(arg[1]) # SIZE
    /\ \A i \in 1 .. Len(arg[1]) : arg[1][i] = 0
    /\ ret.tag = "Err"

\* C8: for every Scalar s, parsing s.serialize() succeeds and returns a
\* scalar equal to s.
C8_SerializeRoundTrip ==
    op = "Scalar::serialize" => Scalar_from_slice(ret.value) = Ok(arg[1])

\* a scalar that needs more than one element has been serialized
C8_Witness ==
    /\ op = "Scalar::serialize"
    /\ arg[1] >= Base
    /\ Len(ret.value) = SIZE

\* C9: for all Scalars a and b, a + b = b + a, and a + b is Zero exactly
\* when serialize(-a) = serialize(b); otherwise it is Valid((a + b) mod n).
C9_AddCommutesAndCancels ==
    op = "Scalar + Scalar" =>
        LET a == arg[1]
            b == arg[2]
        IN  /\ ret = Scalar_add(b, a)
            /\ (ret = Zero <=> Scalar_serialize(Scalar_neg(a)) = Scalar_serialize(b))
            /\ (ret # Zero => ret = Valid((a + b) % CurveOrder))

\* two different scalars have been added and cancelled
C9_Witness ==
    /\ op = "Scalar + Scalar"
    /\ arg[1] # arg[2]
    /\ ret = Zero

\* C10: Scalar::one() is the multiplicative identity: a * one = a and
\* one * a = a for every Scalar a.
C10_OneIsIdentity ==
    op = "Scalar * Scalar" =>
        /\ (arg[2] = SCALAR_ONE => ret.value = arg[1])
        /\ (arg[1] = SCALAR_ONE => ret.value = arg[2])

\* a scalar other than one has been multiplied by Scalar::one()
C10_Witness ==
    /\ op = "Scalar * Scalar"
    /\ arg[2] = SCALAR_ONE
    /\ arg[1] # SCALAR_ONE

\* C11: after any sequence of the operations that yield a Scalar (parsing,
\* reduce_from, the named constants, Scalar * Scalar, negation, unwrapping a
\* MaybeScalar::Valid) the value v held satisfies 1 <= v < n; Scalar * Scalar
\* is never zero and a MaybeScalar::Valid never wraps zero.
C11_ScalarInvariant ==
    /\ (HoldsScalar => ret.value \in 1 .. (CurveOrder - 1))
    /\ (op = "Scalar * Scalar" => ret.value # 0)
    /\ (ret.tag = "Valid" => ret.scalar \in 1 .. (CurveOrder - 1))

\* the client holds the negation of a product that wrapped around n
C11_Witness ==
    /\ op = "-Scalar"
    /\ HoldsScalar
    /\ \E a \in Scalar, b \in Scalar :
        a * b > CurveOrder /\ arg[1] = Scalar_mul(a, b)

\* the call went through the underlying Scalar + Scalar or PublicKey + PublicKey
UsedInnerAddition ==
    \E i \in 1 .. Len(path) :
        path[i] \in {"Scalar + Scalar: map", "Scalar + Scalar: unwrap_or(Zero)",
                     "PublicKey + PublicKey: map",
                     "PublicKey + PublicKey: unwrap_or(Infinity)"}

\* C12: add_any treats the identity as a no-op: two absent operands give the
\* identity; exactly one present operand is returned unchanged, lifted to the
\* maybe-type, without the underlying addition; only two present operands
\* are added.  Hence x + Zero = x = Zero + x for every MaybeScalar x.
C12_AddAnyIdentity ==
    /\ op = "MaybeScalar + MaybeScalar" =>
        LET a == arg[1]
            b == arg[2]
        IN  /\ (a = Zero /\ b = Zero => ret = Zero /\ ~UsedInnerAddition)
            /\ (a = Zero /\ b # Zero => ret = b /\ ~UsedInnerAddition)
            /\ (a # Zero /\ b = Zero => ret = a /\ ~UsedInnerAddition)
            /\ (a # Zero /\ b # Zero =>
                    ret = Scalar_add(a.scalar, b.scalar) /\ UsedInnerAddition)
    /\ op = "MaybePublicKey + MaybePublicKey" =>
        LET a == arg[1]
            b == arg[2]
        IN  /\ (a = Infinity /\ b = Infinity => ret = Infinity /\ ~UsedInnerAddition)
            /\ (a = Infinity /\ b # Infinity => ret = b /\ ~UsedInnerAddition)
            /\ (a # Infinity /\ b = Infinity => ret = a /\ ~UsedInnerAddition)
            /\ (a # Infinity /\ b # Infinity =>
                    ret = PublicKey_add(a.point, b.point) /\ UsedInnerAddition)

\* Zero has been added to a valid scalar and the scalar came back
C12_Witness ==
    /\ op = "MaybeScalar + MaybeScalar"
    /\ arg[1] = Zero
    /\ arg[2] # Zero
    /\ ret = arg[2]

\* C13: multiply_any returns the identity (Zero or Infinity) whenever either
\* operand is absent, and otherwise the product of the two inner values
\* lifted into the maybe-type: x * Zero = Zero = Zero * x and
\* Valid(a) * Valid(b) = Valid(a * b).
C13_MultiplyAnyIdentity ==
    /\ op = "MaybeScalar * MaybeScalar" =>
        LET a == arg[1]
            b == arg[2]
        IN  IF a = Zero \/ b = Zero THEN ret = Zero
            ELSE ret = Valid((a.scalar * b.scalar) % CurveOrder)
    /\ op = "MaybePublicKey * MaybeScalar" =>
        LET a == arg[1]
            b == arg[2]
        IN  IF a = Infinity \/ b = Zero THEN ret = Infinity
            ELSE ret = ValidPoint((a.point * b.scalar) % CurveOrder)

\* a valid scalar has been multiplied by Zero and Zero came back
C13_Witness ==
    /\ op = "MaybeScalar * MaybeScalar"
    /\ arg[1] # Zero
    /\ arg[2] = Zero
    /\ ret = Zero

\* the integer a MaybeScalar stands for, Zero being 0
ScalarValue(m) == IF m.tag = "Valid" THEN m.scalar ELSE 0

\* the multiple of G a MaybePublicKey stands for, Infinity being 0
PointValue(m) == IF m.tag = "Valid" THEN m.point ELSE 0

\* C14: subtraction is addition of the negation, a - b = a + (-b), so the
\* difference is (a - b) mod n and a - a is the identity (Zero / Infinity);
\* -Zero = Zero and -Infinity = Infinity.
C14_SubtractIsAddNeg ==
    /\ op = "MaybeScalar - MaybeScalar" =>
        /\ ret = add_any(arg[1], MaybeScalar_neg(arg[2]))
        /\ ScalarValue(ret) =
               (ScalarValue(arg[1]) + CurveOrder - ScalarValue(arg[2])) % CurveOrder
        /\ (arg[1] = arg[2] => ret = Zero)
    /\ op = "MaybePublicKey - MaybePublicKey" =>
        /\ ret = add_any_point(arg[1], MaybePublicKey_neg(arg[2]))
        /\ PointValue(ret) =
               (PointValue(arg[1]) + CurveOrder - PointValue(arg[2])) % CurveOrder
        /\ (arg[1] = arg[2] => ret = Infinity)
    /\ op = "-MaybeScalar" =>
        /\ (arg[1] = Zero => ret = Zero)
        /\ add_any(arg[1], ret) = Zero
    /\ op = "-MaybePublicKey" =>
        /\ (arg[1] = Infinity => ret = Infinity)
        /\ add_any_point(arg[1], ret) = Infinity

\* a valid scalar has been subtracted from itself and Zero came back
C14_Witness ==
    /\ op = "MaybeScalar - MaybeScalar"
    /\ arg[1] # Zero
    /\ arg[1] = arg[2]
    /\ ret = Zero

\* C15: division by a Scalar is multiplication by its modular inverse:
\* a / b = a * b^-1 and (a / b) * b = a; for a MaybeScalar or MaybePublicKey
\* dividend divide_any returns the identity when the dividend is Zero /
\* Infinity and the lifted quotient otherwise.
C15_DivideIsMulInverse ==
    /\ op = "Scalar / Scalar" =>
        /\ ret.value \in Scalar
        /\ (Scalar_mul(arg[2], Scalar_invert(arg[2])) = SCALAR_ONE)
        /\ ret.value = Scalar_mul(arg[1], Scalar_invert(arg[2]))
        /\ Scalar_mul(ret.value, arg[2]) = arg[1]
    /\ op = "MaybeScalar / Scalar" =>
        IF arg[1] = Zero THEN ret = Zero
        ELSE /\ ret.tag = "Valid"
             /\ Scalar_mul(ret.scalar, arg[2]) = arg[1].scalar
    /\ op = "MaybePublicKey / Scalar" =>
        IF arg[1] = Infinity THEN ret = Infinity
        ELSE /\ ret.tag = "Valid"
             /\ PublicKey_mul(ret.point, arg[2]) = Ret(arg[1].point)

\* a scalar has been divided by one that is not its own inverse
C15_Witness ==
    /\ op = "Scalar / Scalar"
    /\ Scalar_invert(arg[2]) # arg[2]
    /\ Scalar_mul(ret.value, arg[2]) = arg[1]

\* C16: for all PublicKeys P and Q, P + Q is Infinity exactly when Q = -P and
\* Valid(P + Q) otherwise; generator() + (-generator()) is Infinity.
C16_PointAddCancels ==
    op = "PublicKey + PublicKey" =>
        /\ (ret = Infinity <=> arg[2] = PublicKey_neg(arg[1]))
        /\ (ret # Infinity => ret = ValidPoint((arg[1] + arg[2]) % CurveOrder))
        /\ (arg[1] = PublicKey_generator /\ arg[2] = PublicKey_neg(PublicKey_generator)
                => ret = Infinity)

\* the generator has been added to its negation
C16_Witness ==
    /\ op = "PublicKey + PublicKey"
    /\ arg[1] = PublicKey_generator
    /\ arg[2] = PublicKey_neg(PublicKey_generator)
    /\ ret = Infinity

\* C17: multiplying a non-infinity point by a non-zero scalar is total and
\* never yields infinity: P * s, s * P, s * G, G * s and s.base_point_mul()
\* return a valid PublicKey without a panic, and s * P = P * s.
C17_PointMulTotal ==
    /\ op = "PublicKey * Scalar" =>
        /\ ret.tag = "Ret"
        /\ ret.value \in PublicKey
        /\ Scalar_mul_PublicKey(arg[2], arg[1]) = ret
    /\ op = "Scalar::base_point_mul" =>
        /\ ret.value \in PublicKey
        /\ Scalar_mul_G(arg[1]) = ret.value
        /\ G_mul_Scalar(arg[1]) = ret.value
        /\ PublicKey_mul(PublicKey_generator, arg[1]) = ret

\* a point has been multiplied by a scalar and the product wrapped around n
C17_Witness ==
    /\ op = "PublicKey * Scalar"
    /\ arg[1] * arg[2] > CurveOrder
    /\ ret.tag = "Ret"

\* C18: the marker G behaves like PublicKey::generator(): G + G is 2*G, the
\* point Scalar::two().base_point_mul() and the Valid result of
\* generator() + generator(); G - G is Infinity; G * s = generator() * s.
C18_GeneratorMarker ==
    /\ op = "G + G" =>
        /\ ret.value = (2 * PublicKey_generator) % CurveOrder
        /\ ret.value = base_point_mul(SCALAR_TWO)
        /\ PublicKey_add(PublicKey_generator, PublicKey_generator) = ValidPoint(ret.value)
    /\ op = "G - G" => ret = Infinity
    /\ op = "G * Scalar" => PublicKey_mul(PublicKey_generator, arg[1]) = ret

\* G has been added to G
C18_Witness ==
    /\ op = "G + G"
    /\ ret.tag = "Ret"
    /\ ret.value # PublicKey_generator

\* the standard lexicographic order of two slices: the first differing
\* position decides, and a proper prefix is Less
RECURSIVE LexOrder(_, _)
LexOrder(lhs, rhs) ==
    IF Len(lhs) = 0 THEN (IF Len(rhs) = 0 THEN "Equal" ELSE "Less")
    ELSE IF Len(rhs) = 0 THEN "Greater"
    ELSE IF lhs[1] < rhs[1] THEN "Less"
    ELSE IF lhs[1] > rhs[1] THEN "Greater"
    ELSE LexOrder(SubSeq(lhs, 2, Len(lhs)), SubSeq(rhs, 2, Len(rhs)))

\* C19: ct_slice_lex_cmp(lhs, rhs) is the standard lexicographic order of the
\* two slices, of equal or unequal length: [1,2] vs [1,3] is Less, [1] vs
\* [1,0] is Less, [2] vs [1,0] is Greater.
C19_LexCmpIsLexOrder ==
    op \in {"crypto::utils::ct_slice_lex_cmp", "utils::ct_slice_lex_cmp"} =>
        /\ ret.value = LexOrder(arg[1], arg[2])
        /\ (arg = <<<<1, 2>>, <<1, 3>>>> => ret.value = "Less")
        /\ (arg = <<<<1>>, <<1, 0>>>> => ret.value = "Less")
        /\ (arg = <<<<2>>, <<1, 0>>>> => ret.value = "Greater")

\* a slice has been compared with a longer one that it is a prefix of
C19_Witness ==
    /\ op = "crypto::utils::ct_slice_lex_cmp"
    /\ arg = <<<<1>>, <<1, 0>>>>
    /\ ret.value = "Less"

\* C20: Parity::from_u8(v) and Parity::from_i32(v) return Even for 0, Odd for
\* 1 and an InvalidParityValue error for every other value; and
\* from_u8(p.to_u8()) = p, from_i32(p.to_i32()) = p for both parities.
C20_ParityConversion ==
    /\ op \in {"Parity::from_u8", "Parity::from_i32"} =>
        IF arg[1] = 0 THEN ret = Ok("Even")
        ELSE IF arg[1] = 1 THEN ret = Ok("Odd")
        ELSE ret.tag = "Err" /\ ret.error.name = "InvalidParityValue"
    /\ op = "Parity::to_u8" => Parity_from_u8(ret.value) = Ok(arg[1])
    /\ op = "Parity::to_i32" => Parity_from_i32(ret.value) = Ok(arg[1])

\* Parity::from_u8 has rejected the byte 2
C20_Witness ==
    /\ op = "Parity::from_u8"
    /\ arg[1] = 2
    /\ ret.tag = "Err"

\* C21: for all parities a, b, a ^ b is Even when a = b and Odd otherwise,
\* which is the parity of the integer to_u8(a) XOR to_u8(b).
C21_ParityXor ==
    op = "Parity ^ Parity" =>
        /\ ret.value = (IF arg[1] = arg[2] THEN "Even" ELSE "Odd")
        /\ (arg = <<"Even", "Even">> => ret.value = "Even")
        /\ (arg = <<"Even", "Odd">> => ret.value = "Odd")
        /\ (arg = <<"Odd", "Even">> => ret.value = "Odd")
        /\ (arg = <<"Odd", "Odd">> => ret.value = "Even")
        /\ Parity_from_u8(XorBits(Parity_to_u8(arg[1]), Parity_to_u8(arg[2]), 8))
               = Ok(ret.value)

\* Odd ^ Odd has been computed
C21_Witness ==
    /\ op = "Parity ^ Parity"
    /\ arg = <<"Odd", "Odd">>
    /\ ret.value = "Even"

\* what every state of the lazily initialised constants satisfies: no
\* initialiser has run twice, no access has panicked, a COMPLETE cell holds
\* the value of its initialiser and every finished read has seen that value
LazyInitialisedOnce ==
    /\ \A c \in LazyStatics :
        /\ runs[c] <= 1
        /\ cells[c].state = "COMPLETE" =>
               cells[c].slot = Some(Initialiser(c)) /\ runs[c] = 1
    /\ \A t \in Threads :
        /\ threads[t].pc # "panicked"
        /\ threads[t].pc = "done" => threads[t].seen = Some(Initialiser(threads[t].cell))

\* a cell that is COMPLETE is left as it is by every step
LazyReadOnly ==
    \A c \in LazyStatics : cells[c].state = "COMPLETE" => cells'[c] = cells[c]

\* C22: under any interleaving of threads that access a lazily initialised
\* constant, its initialiser runs at most once, every reader observes the
\* same fully initialised value, and the value never changes afterwards.
C22_LazyInitOnce == [] LazyInitialisedOnce /\ [][LazyReadOnly]_vars

\* one thread has read a constant while another, which found the same cell
\* RUNNING on its first access, is still parked
C22_Witness ==
    \E t1 \in Threads, t2 \in Threads :
        /\ threads[t1].pc = "done"
        /\ threads[t1].seen = Some(Initialiser(threads[t1].cell))
        /\ threads[t2].pc = "wait"
        /\ threads[t2].cell = threads[t1].cell
        /\ runs[threads[t1].cell] = 1

\* the conversions from MaybeScalar that can hand out a Scalar
IntoScalarOps ==
    {"MaybeScalar::into_option", "MaybeScalar::not_zero",
     "Scalar::try_from(MaybeScalar)", "MaybeScalar::unwrap"}

\* C23: is_zero() is true exactly for Zero; into_option() returns None for
\* Zero and Some(s) for Valid(s); not_zero() returns Err(ZeroScalarError) for
\* Zero and Ok(s) for Valid(s); MaybeScalar::default() is Zero; no conversion
\* puts a scalar in the place of Zero.
C23_ZeroSurfaced ==
    /\ op = "MaybeScalar::is_zero" => ret.value = (arg[1] = Zero)
    /\ op = "MaybeScalar::into_option" =>
        IF arg[1] = Zero THEN ret = [tag |-> "None"]
        ELSE ret = [tag |-> "Some", value |-> arg[1].scalar]
    /\ op \in {"MaybeScalar::not_zero", "Scalar::try_from(MaybeScalar)"} =>
        IF arg[1] = Zero THEN ret = Err("ZeroScalarError")
        ELSE ret = Ok(arg[1].scalar)
    /\ op = "MaybeScalar::default" => ret = Zero
    /\ (op \in IntoScalarOps /\ arg[1] = Zero) => ret.tag \in {"None", "Err", "Panic"}

\* not_zero has turned Zero into the error
C23_Witness ==
    /\ op = "MaybeScalar::not_zero"
    /\ arg[1] = Zero
    /\ ret = Err("ZeroScalarError")

\* C24: the named constants have the stated values as 256-bit big-endian
\* integers: Scalar::one() = 1, Scalar::two() = 2, Scalar::max() = n - 1
\* (CURVE_ORDER_MINUS_ONE_BYTES + 1 = CURVE_ORDER_BYTES) and
\* Scalar::half_order() = n >> 1; each lies in [1, n), so the parse and
\* unwrap of its initialiser never panics.
C24_NamedConstants ==
    /\ op = "Scalar::one" => ret = Ret(1)
    /\ op = "Scalar::two" => ret = Ret(2)
    /\ op = "Scalar::max" =>
        /\ ret = Ret(CurveOrder - 1)
        /\ BeValue(CURVE_ORDER_MINUS_ONE_BYTES) + 1 = BeValue(CURVE_ORDER_BYTES)
        /\ BytesPlusOne(Secp256k1_CURVE_ORDER_MINUS_ONE_BYTES) = Secp256k1_CURVE_ORDER_BYTES
        /\ Secp256k1_in_range(Secp256k1_CURVE_ORDER_MINUS_ONE_BYTES)
    /\ op = "Scalar::half_order" =>
        /\ ret = Ret(CurveOrder \div 2)
        /\ Secp256k1_SCALAR_HALF_ORDER_BYTES = BytesShiftRight(Secp256k1_CURVE_ORDER_BYTES)
        /\ Secp256k1_in_range(Secp256k1_SCALAR_HALF_ORDER_BYTES)
    /\ op \in {"Scalar::one", "Scalar::two", "Scalar::max", "Scalar::half_order"} =>
        /\ ret.value \in Scalar
        /\ Secp256k1_in_range(Secp256k1_SCALAR_ONE_BYTES)
        /\ Secp256k1_in_range(Secp256k1_SCALAR_TWO_BYTES)

\* Scalar::max() has returned n - 1
C24_Witness ==
    /\ op = "Scalar::max"
    /\ ret.value = CurveOrder - 1

\* C25: in reduce_from_internal with modulus n-1, for every array z the two
\* intermediate values are representable: q (z when z < modulus, MAX - z
\* when z >= modulus) and r (MAX - modulus) are both strictly below n, so
\* neither unwrap of MaybeScalar::try_from panics.
C25_IntermediatesInRange ==
    op = "Scalar::reduce_from" =>
        LET z == BeValue(arg[1])
            modulus == CurveOrder - 1
            q_bytes == reduce_from_internal_q_bytes(arg[1], CURVE_ORDER_MINUS_ONE_BYTES)
            r_bytes == reduce_from_internal_modulus_neg_bytes(CURVE_ORDER_MINUS_ONE_BYTES)
        IN  /\ BeValue(q_bytes) = (IF z < modulus THEN z ELSE MaxValue - z)
            /\ BeValue(r_bytes) = MaxValue - modulus
            /\ BeValue(q_bytes) < CurveOrder
            /\ BeValue(r_bytes) < CurveOrder
            /\ MaybeScalar_from_slice(q_bytes).tag = "Ok"
            /\ MaybeScalar_from_slice(r_bytes).tag = "Ok"
            /\ ret.tag # "Panic"

\* reduce_from has run on the modulus itself, for which q is MAX - (n-1)
C25_Witness ==
    /\ op = "Scalar::reduce_from"
    /\ arg[1] = CURVE_ORDER_MINUS_ONE_BYTES
    /\ reduce_from_internal_q_bytes(arg[1], CURVE_ORDER_MINUS_ONE_BYTES)
           = xor_arrays(CURVE_ORDER_MINUS_ONE_BYTES, MAX_U256)
    /\ ret.tag = "Ok"

\* C26: for every array z and every modulus that passes the function's own
\* checks (modulus <= n and MAX - modulus <= n), reduce_from_internal
\* returns z mod modulus without panicking.
C26_ReducesModuloAdmissible ==
    op = "MaybeScalar::reduce_from_internal" =>
        ret = NonZeroScalar_new(BeValue(arg[1]) % BeValue(arg[2]))

\* C27: for every array x, xor_arrays(x, MAX) with MAX the all-ones array
\* is MAX - x as a big-endian integer, and xor_arrays is an involution and
\* commutative: xor_arrays(xor_arrays(a, b), b) = a and
\* xor_arrays(a, b) = xor_arrays(b, a).
C27_XorIsComplement ==
    op = "xor_arrays" =>
        /\ (arg[2] = MAX_U256 => BeValue(ret.value) = MaxValue - BeValue(arg[1]))
        /\ xor_arrays(ret.value, arg[2]) = arg[1]
        /\ xor_arrays(arg[2], arg[1]) = ret.value
        /\ ret.value \in ByteArray

\* the curve order minus one has been XORed with the all-ones array
C27_Witness ==
    /\ op = "xor_arrays"
    /\ arg = <<CURVE_ORDER_MINUS_ONE_BYTES, MAX_U256>>
    /\ BeValue(ret.value) = MaxValue - (CurveOrder - 1)

\* C28: MaybeScalar::conditional_select(a, b, choice) returns a value equal
\* to a when choice is 0 and to b when choice is 1, for every a and b, Zero
\* included: a selected zero comes back as Zero, never as Valid.
C28_ConditionalSelect ==
    op = "MaybeScalar::conditional_select" =>
        /\ (arg[3] = 0 => ret = arg[1])
        /\ (arg[3] = 1 => ret = arg[2])
        /\ ret \in MaybeScalar
        /\ ((arg[3] = 0 /\ arg[1] = Zero) \/ (arg[3] = 1 /\ arg[2] = Zero) => ret.tag = "Zero")

\* Zero has been selected against a valid scalar
C28_Witness ==
    /\ op = "MaybeScalar::conditional_select"
    /\ arg[1].tag = "Valid"
    /\ arg[2] = Zero
    /\ arg[3] = 1
    /\ ret = Zero

\* the iterations of the loop recorded in the path
LoopIterations ==
    Cardinality({i \in 1 .. Len(path) :
        path[i] = "for (v1, v2): whole_slice_is_gt |=, whole_slice_is_eq &="})

\* C29: ct_slice_lex_cmp has no data-dependent early exit: its loop runs
\* exactly min(len(lhs), len(rhs)) iterations and it performs the same
\* sequence of steps for any two pairs of slices with the same lengths,
\* wherever (or whether) the slices first differ.
C29_NoEarlyExit ==
    op = "crypto::utils::ct_slice_lex_cmp" =>
        /\ LoopIterations = Min(Len(arg[1]), Len(arg[2]))
        /\ \A lhs2 \in CmpSlices, rhs2 \in CmpSlices :
               (Len(lhs2) = Len(arg[1]) /\ Len(rhs2) = Len(arg[2])) =>
                   ct_slice_lex_cmp_path(lhs2, rhs2) = path

\* two slices of full length that differ in their first element have been
\* compared, and the loop went on to the last element
C29_Witness ==
    /\ op = "crypto::utils::ct_slice_lex_cmp"
    /\ Len(arg[1]) = SIZE
    /\ Len(arg[2]) = SIZE
    /\ arg[1][1] # arg[2][1]
    /\ LoopIterations = SIZE

\* C30: Scalar::greater_than_curve_order_minus_one() returns false for
\* every Scalar, so in add_tweak the out-of-range rejection and the final
\* sk_prime + (-(n-1)) branch are never taken: every call either returns Ok
\* at the first !greater_than_curve_order_minus_one() check or fails on a
\* zero sum.
C30_GreaterThanNeverTrue ==
    /\ op = "Scalar::greater_than_curve_order_minus_one" => ret = Ret(FALSE)
    /\ op = "add_tweak" =>
        /\ path \in {<<"match sk_scalar + tweak: Zero, return Err">>,
                     <<"match sk_scalar + tweak: Valid",
                       "if !sk_prime greater than n - 1: return Ok">>}
        /\ (ret.tag = "Err" =>
                ret.error = "Invalid scalar value, greater than or equal to curve order"
                /\ (arg[1] + arg[2]) % CurveOrder = 0)
        /\ (ret.tag = "Ok" => path[Len(path)] = "if !sk_prime greater than n - 1: return Ok")

\* the largest scalar, n - 1, has been asked whether it exceeds n - 1
C30_Witness ==
    /\ op = "Scalar::greater_than_curve_order_minus_one"
    /\ arg[1] = CurveOrder - 1
    /\ ret = Ret(FALSE)

====
